---- MODULE Spec2Model ----
(***************************************************************************)
(* Registration portal: the register / delete / catalog handlers of        *)
(* app.js over the two stores, DatabaseManager (json_store.js: one JSON    *)
(* file, every mutation a read of the whole file followed by a whole-file  *)
(* write through data.json.tmp) and MongoStore (two collections, the       *)
(* registration inside a snapshot-isolated transaction).                   *)
(*                                                                         *)
(* Every request is one process.  A process step is one await-to-await     *)
(* stretch of the handler: node runs the synchronous code between two      *)
(* awaits without interleaving, and interleaves requests at the awaits.    *)
(*                                                                         *)
(* Not modelled: registrationDateTime (new Date().toISOString(), written   *)
(* into the record and never read by any operation), description,          *)
(* category, difficulty and technologies of a problem statement (copied,   *)
(* never read by the operations below).                                    *)
(***************************************************************************)
EXTENDS Integers, Sequences, FiniteSets, TLC

\* Number of requests (each runs once, all may overlap).
NumProcs == 2

Procs == 1..NumProcs

\* Number of observers of the live-update stream
NumObservers == 2

Observers == 1..NumObservers

\* Number of messages written to the observers after which the model stops
\* the heartbeats
MaxReceived == 2

VARIABLES
    backend,   \* "file": db is a DatabaseManager, "mongo": db is a MongoStore
    file,      \* DatabaseManager: parsed content of data.json
    tmp,       \* DatabaseManager: data.json.tmp, <<content>> or NoFile
    coll,      \* MongoStore: committed content of the two collections
    pc,        \* per request: the await it is suspended at
    req,       \* per request: its kind and its inputs
    data,      \* per request, while it runs: the local `data` object (file) / the record to insert (mongo)
    result,    \* per request: what the store method returned
    resp,      \* per request: the HTTP answer (status and message), or NoResp
    writes,    \* per request: number of store writes the request has performed
    committed, \* history: the stored team numbers that entered the Ledger and that
               \* no delete request has written over since
    observers, \* per observer (a GET /api/events response): "none" before it
               \* subscribes, "subscribed" while in connectedClients, then
               \* "failed" (a broadcast to it threw: deleted from the set, its
               \* heartbeat timer still running), "stopped" (a heartbeat to
               \* it threw: deleted, timer cleared) or "closed" (its request
               \* closed: deleted, timer cleared)
    received,  \* per observer: the type tags of the broadcasts written to it
    snapshot   \* per request, until its handler returns: updatedRegistrations and
               \* updatedProblems, the two lists it read for the broadcast

vars == <<backend, file, tmp, coll, pc, req, data, result, resp, writes, committed,
          observers, received, snapshot>>

----------------------------------------------------------------------------
(* JavaScript values *)

\* A maxSelections value: a number, or undefined (a missing field).
Num(n) == [num |-> TRUE, v |-> n]
Undef == [num |-> FALSE, v |-> 0]

\* count >= m and count < m in JavaScript: undefined converts to NaN and
\* every comparison with NaN is false.
JsGE(count, m) == m.num /\ count >= m.v
JsLT(count, m) == m.num /\ count < m.v

\* A team number is a string, modelled as a tuple of characters.
\* String.prototype.trim
RECURSIVE TrimLeft(_)
TrimLeft(s) == IF s # <<>> /\ Head(s) = " " THEN TrimLeft(Tail(s)) ELSE s

RECURSIVE TrimRight(_)
TrimRight(s) ==
    IF s # <<>> /\ s[Len(s)] = " " THEN TrimRight(SubSeq(s, 1, Len(s) - 1)) ELSE s

Trim(s) == TrimRight(TrimLeft(s))

\* Array.prototype.filter, with the predicate given as the set of kept values
RECURSIVE Filter(_, _)
Filter(s, keep) ==
    IF s = <<>> THEN <<>>
    ELSE IF Head(s) \in keep THEN <<Head(s)>> \o Filter(Tail(s), keep)
    ELSE Filter(Tail(s), keep)

Range(s) == {s[i] : i \in DOMAIN s}

Max(a, b) == IF a >= b THEN a ELSE b

\* A file that does not exist; a file that exists is <<its content>>
NoFile == <<>>
NoResp == [status |-> 0, error |-> ""]
Null == [changes |-> -1]

----------------------------------------------------------------------------
(* DatabaseManager (json_store.js) *)

\* maxSelections of the problem statements seedProblemStatements writes
SeedMaxSelections == 2

\* data.registrations.some(r => r.teamNumber === teamNumber)
FileIsTeamNumberTaken(d, teamNumber) ==
    \E i \in DOMAIN d.registrations : d.registrations[i].teamNumber = teamNumber

\* data.problemStatements.find(p => p.id === id): the index of the first match, 0 if none
FileFindPs(d, id) ==
    IF \E i \in DOMAIN d.problemStatements : d.problemStatements[i].id = id
    THEN CHOOSE i \in DOMAIN d.problemStatements :
            /\ d.problemStatements[i].id = id
            /\ \A j \in 1..(i - 1) : d.problemStatements[j].id # id
    ELSE 0

\* data.registrations.filter(r => r.problemStatementId === id).length
FileCount(d, id) ==
    Cardinality({i \in DOMAIN d.registrations : d.registrations[i].problemStatementId = id})

Record(r, teamNumber) ==
    [teamNumber |-> teamNumber, teamName |-> r.teamName, teamLeader |-> r.teamLeader,
     problemStatementId |-> r.problemStatementId]

\* Mutant: the capacity check `current >= ps.maxSelections` left out
FileRegistrationAllowed_NoCapacity(d, r) ==
    /\ ~FileIsTeamNumberTaken(d, r.teamNumber)
    /\ FileFindPs(d, r.problemStatementId) # 0

\* Mutant: the check for an existing registration of the team left out
FileRegistrationAllowed_NoTeamCheck(d, r) ==
    /\ FileFindPs(d, r.problemStatementId) # 0
    /\ ~JsGE(FileCount(d, d.problemStatements[FileFindPs(d, r.problemStatementId)].id),
             d.problemStatements[FileFindPs(d, r.problemStatementId)].maxSelections)

\* createRegistrationAtomic, from the read to the push: TRUE when the three
\* checks pass on the data just read
FileRegistrationAllowed(d, r) ==
    /\ ~FileIsTeamNumberTaken(d, r.teamNumber)
    /\ FileFindPs(d, r.problemStatementId) # 0
    /\ ~JsGE(FileCount(d, d.problemStatements[FileFindPs(d, r.problemStatementId)].id),
             d.problemStatements[FileFindPs(d, r.problemStatementId)].maxSelections)

FilePushRegistration(d, r) ==
    [d EXCEPT !.registrations = Append(@, Record(r, r.teamNumber))]

\* createProblemStatement, the record pushed (no coercion of maxSelections)
FileNewPs(r) == [id |-> r.problemStatementId, title |-> r.title, maxSelections |-> r.maxSelections]

Absent == "undefined"

\* Mutant: next.title = updates.title without the test for undefined
FileMergePs_TitleAlways(current, r) ==
    [id |-> current.id,
     title |-> r.title,
     maxSelections |-> IF r.maxSelections # Undef THEN r.maxSelections
                       ELSE IF r.max_selections # Undef THEN r.max_selections
                       ELSE current.maxSelections]

\* updateProblemStatement: next = { ...current } with the provided fields replaced;
\* updates.max_selections is applied first, updates.maxSelections after it
FileMergePs(current, r) ==
    [id |-> current.id,
     title |-> IF r.title # Absent THEN r.title ELSE current.title,
     maxSelections |-> IF r.maxSelections # Undef THEN r.maxSelections
                       ELSE IF r.max_selections # Undef THEN r.max_selections
                       ELSE current.maxSelections]

\* importFromJSON: the records pushed, one for every listed problem statement
\* whose id is not among the ids read (newIds is not extended by the pushes)
FileToInsert(d, list) ==
    Filter(list, {x \in Range(list) :
                    \A i \in DOMAIN d.problemStatements : d.problemStatements[i].id # x.id})

\* deleteProblemStatement: both arrays filtered
FileWithoutPs(d, id) ==
    [problemStatements |-> Filter(d.problemStatements,
                                  {x \in Range(d.problemStatements) : x.id # id}),
     registrations |-> Filter(d.registrations,
                              {x \in Range(d.registrations) : x.problemStatementId # id})]

\* Mutant: the filter keeps the registrations that come before the team's
FileWithoutTeam_Truncate(d, teamNumber) ==
    [d EXCEPT !.registrations =
        IF \E i \in DOMAIN @ : @[i].teamNumber = teamNumber
        THEN SubSeq(@, 1, (CHOOSE i \in DOMAIN @ : @[i].teamNumber = teamNumber) - 1)
        ELSE @]

\* deleteRegistration: data.registrations filtered
FileWithoutTeam(d, teamNumber) ==
    [d EXCEPT !.registrations =
        Filter(@, {x \in Range(d.registrations) : x.teamNumber # teamNumber})]

----------------------------------------------------------------------------
(* MongoStore (unnamed/part_000) *)

\* parseInt(maxSelections || '0', 10) || 0 for a non-number, then Math.max(1, .)
MongoMaxSel(m) == Max(1, IF m.num THEN m.v ELSE 0)

\* regs.findOne({ teamNumber: target })
MongoFindTeam(c, target) ==
    \E i \in DOMAIN c.regs : c.regs[i].teamNumber = target

\* ps.findOne({ id })
MongoFindPs(c, id) ==
    IF \E i \in DOMAIN c.ps : c.ps[i].id = id
    THEN CHOOSE i \in DOMAIN c.ps : c.ps[i].id = id
    ELSE 0

\* regs.countDocuments({ problemStatementId: id })
MongoCount(c, id) ==
    Cardinality({i \in DOMAIN c.regs : c.regs[i].problemStatementId = id})

\* The callback of withTransaction up to insertOne, on the transaction's
\* snapshot c: TRUE when the three checks pass
MongoRegistrationAllowed(c, r) ==
    /\ ~MongoFindTeam(c, Trim(r.teamNumber))
    /\ MongoFindPs(c, r.problemStatementId) # 0
    /\ ~(MongoCount(c, c.ps[MongoFindPs(c, r.problemStatementId)].id)
            >= MongoMaxSel(c.ps[MongoFindPs(c, r.problemStatementId)].maxSelections))

\* createProblemStatement: the document inserted, maxSelections coerced
MongoNewPs(r) ==
    [id |-> r.problemStatementId, title |-> r.title,
     maxSelections |-> Num(MongoMaxSel(r.maxSelections))]

\* updateProblemStatement: the document after $set; val = max_selections ?? maxSelections
MongoSetPs(current, r) ==
    [id |-> current.id,
     title |-> IF r.title # Absent THEN r.title ELSE current.title,
     maxSelections |-> IF r.max_selections # Undef THEN Num(MongoMaxSel(r.max_selections))
                       ELSE IF r.maxSelections # Undef THEN Num(MongoMaxSel(r.maxSelections))
                       ELSE current.maxSelections]

\* updateProblemStatement with no field provided: doc is {} and the update is
\* { $set: {} }, which a server before MongoDB 5.0 refuses with an error and a
\* later one accepts as an update that modifies nothing
MongoEmptySet(r) ==
    r.title = Absent /\ r.max_selections = Undef /\ r.maxSelections = Undef

\* importFromJSON: toInsert, built from the ids found, maxSelections coerced
MongoToInsert(c, list) ==
    [i \in DOMAIN Filter(list, {x \in Range(list) : MongoFindPs(c, x.id) = 0}) |->
        [Filter(list, {x \in Range(list) : MongoFindPs(c, x.id) = 0})[i]
            EXCEPT !.maxSelections = Num(MongoMaxSel(@))]]

\* ps.insertMany(toInsert), ordered: the documents are inserted one by one up
\* to the first whose id is already in the collection (unique index on id)
RECURSIVE MongoInsertManyPs(_, _)
MongoInsertManyPs(c, toInsert) ==
    IF toInsert = <<>> \/ MongoFindPs(c, Head(toInsert).id) # 0 THEN c
    ELSE MongoInsertManyPs([c EXCEPT !.ps = Append(@, Head(toInsert))], Tail(toInsert))

\* ps.deleteOne({ id })
MongoDeleteOnePs(c, id) ==
    [c EXCEPT !.ps = Filter(@, {x \in Range(c.ps) : x.id # id})]

\* regs.deleteMany({ problemStatementId: id })
MongoDeleteManyRegs(c, id) ==
    [c EXCEPT !.regs = Filter(@, {x \in Range(c.regs) : x.problemStatementId # id})]

\* Mutant: the delete removes every registration
MongoDeleteOneReg_All(c, target) ==
    [c EXCEPT !.regs = <<>>]

\* regs.deleteOne({ teamNumber: target })
MongoDeleteOneReg(c, target) ==
    [c EXCEPT !.regs = Filter(@, {x \in Range(c.regs) : x.teamNumber # target})]

----------------------------------------------------------------------------
(* The store behind db, whichever it is *)

Catalog == IF backend = "file" THEN file.problemStatements ELSE coll.ps
Ledger == IF backend = "file" THEN file.registrations ELSE coll.regs

CatalogIds == {Catalog[i].id : i \in DOMAIN Catalog}
LedgerTeams == {Ledger[i].teamNumber : i \in DOMAIN Ledger}

CountFor(id) == Cardinality({i \in DOMAIN Ledger : Ledger[i].problemStatementId = id})

\* The teamNumber a store keeps for a request's teamNumber
Key(teamNumber) == IF backend = "file" THEN teamNumber ELSE Trim(teamNumber)

\* db.isTeamNumberTaken(teamNumber); MongoStore trims, DatabaseManager does not
IsTeamNumberTaken(teamNumber) ==
    IF backend = "file" THEN FileIsTeamNumberTaken(file, teamNumber)
    ELSE MongoFindTeam(coll, Trim(teamNumber))

\* db.getProblemStatementById(id) !== null
PsFound(id) ==
    IF backend = "file" THEN FileFindPs(file, id) # 0 ELSE MongoFindPs(coll, id) # 0

----------------------------------------------------------------------------
(* The read model: getAllProblemStatements *)

\* Mutant: idToCount.set(id, 1) for every registration, the previous count dropped
IdToCount_NoIncrement(registrations, id) ==
    IF \E i \in DOMAIN registrations : registrations[i].problemStatementId = id
    THEN 1 ELSE 0

\* idToCount.get(id) || 0 after the forEach over the registrations read
RECURSIVE IdToCount(_, _)
IdToCount(registrations, id) ==
    IF registrations = <<>> THEN 0
    ELSE (IF Head(registrations).problemStatementId = id THEN 1 ELSE 0)
            + IdToCount(Tail(registrations), id)

\* DatabaseManager.getAllProblemStatements on the data read: max_selections is
\* the stored value, is_available the JavaScript comparison with it
FileGetAllProblemStatements(d) ==
    [i \in DOMAIN d.problemStatements |->
        [id |-> d.problemStatements[i].id,
         title |-> d.problemStatements[i].title,
         max_selections |-> d.problemStatements[i].maxSelections,
         selected_count |-> IdToCount(d.registrations, d.problemStatements[i].id),
         is_available |-> JsLT(IdToCount(d.registrations, d.problemStatements[i].id),
                               d.problemStatements[i].maxSelections)]]

\* MongoStore.getAllProblemStatements on the results of its two finds
MongoGetAllProblemStatements(problems, registrations) ==
    [i \in DOMAIN problems |->
        [id |-> problems[i].id,
         title |-> problems[i].title,
         max_selections |-> Num(MongoMaxSel(problems[i].maxSelections)),
         selected_count |-> IdToCount(registrations, problems[i].id),
         is_available |-> IdToCount(registrations, problems[i].id)
                              < MongoMaxSel(problems[i].maxSelections)]]

\* db.getAllProblemStatements() answered from the store as it is
GetAllProblemStatements ==
    IF backend = "file" THEN FileGetAllProblemStatements(file)
    ELSE MongoGetAllProblemStatements(coll.ps, coll.regs)

\* Mutant: a missing problem statement is given the first one's title
ProblemTitle_FirstPs(problems, id) ==
    IF problems # <<>> THEN problems[1].title ELSE ""

\* idToPs.get(id)?.title || '' with idToPs = new Map(problems.map(p => [p.id, p])):
\* of several problem statements with one id the Map keeps the last
ProblemTitle(problems, id) ==
    IF \E i \in DOMAIN problems : problems[i].id = id
    THEN LET last == CHOOSE i \in DOMAIN problems :
                        /\ problems[i].id = id
                        /\ \A j \in DOMAIN problems : problems[j].id = id => j <= i
         IN IF problems[last].title = Absent THEN "" ELSE problems[last].title
    ELSE ""

\* getAllRegistrations of either store on the registrations and the problem
\* statements it read: one row per registration (problem_category and
\* problem_difficulty are looked up the way problem_title is, with null for '')
RegistrationRows(registrations, problems) ==
    [i \in DOMAIN registrations |->
        [team_number |-> registrations[i].teamNumber,
         team_name |-> registrations[i].teamName,
         team_leader |-> registrations[i].teamLeader,
         problem_title |-> ProblemTitle(problems, registrations[i].problemStatementId)]]

\* db.getAllRegistrations() answered from the store as it is
GetAllRegistrations ==
    IF backend = "file" THEN RegistrationRows(file.registrations, file.problemStatements)
    ELSE RegistrationRows(coll.regs, coll.ps)

----------------------------------------------------------------------------
(* The handlers of app.js *)

NoReq == [kind |-> "none", teamNumber |-> <<>>, teamName |-> "", teamLeader |-> "",
          problemStatementId |-> "", title |-> Absent,
          max_selections |-> Undef, maxSelections |-> Undef, list |-> <<>>]

NoData == [problemStatements |-> <<>>, registrations |-> <<>>]

NoSnapshot == [registrations |-> <<>>, problems |-> <<>>]

Changes(n) == [changes |-> n]

\* The answer of a handler whose store method returned res
Answer(kind, res) ==
    CASE kind = "register" ->
            IF res = Null
            THEN [status |-> 409, error |-> "Problem statement is full or team already registered."]
            ELSE [status |-> 200, error |-> ""]
      [] kind = "deleteRegistration" ->
            IF res.changes = 0
            THEN [status |-> 404, error |-> "Registration not found"]
            ELSE [status |-> 200, error |-> ""]
      [] kind = "createProblemStatement" -> [status |-> 201, error |-> ""]
      [] OTHER -> [status |-> 200, error |-> ""]

\* The answer of a handler whose store method threw
Failure(kind) ==
    CASE kind = "register" -> [status |-> 500, error |-> "Registration failed"]
      [] kind = "deleteRegistration" -> [status |-> 500, error |-> "Failed to delete registration"]
      [] kind = "createProblemStatement" -> [status |-> 500, error |-> "Failed to create problem statement"]
      [] kind = "updateProblemStatement" -> [status |-> 500, error |-> "Failed to update problem statement"]
      [] kind = "import" -> [status |-> 500, error |-> "Error during database initialization"]
      [] OTHER -> [status |-> 500, error |-> "Failed to delete problem statement"]

\* Mutant: the handlers broadcast whatever the store method returned
Broadcasts_Always(kind, res) ==
    kind \in {"register", "deleteRegistration"}

\* Whether the handler reads the store again and broadcasts before it answers
Broadcasts(kind, res) ==
    \/ kind = "register" /\ res # Null
    \/ kind = "deleteRegistration" /\ res.changes # 0

\* The history of commits across a store write of a request of this kind: a
\* register request's write adds the team numbers that enter the Ledger, any
\* other request's write leaves the ones still in the Ledger
Track(kind) ==
    committed' = IF kind = "register" THEN committed \cup (LedgerTeams' \ LedgerTeams)
                 ELSE committed \cap LedgerTeams'

\* The store method of request p, a request of this kind, returned res
ReturnedTo(p, kind, res) ==
    /\ result' = [result EXCEPT ![p] = res]
    /\ IF Broadcasts(kind, res)
       THEN /\ pc' = [pc EXCEPT ![p] = "getAllRegistrations"]
            /\ resp' = resp
       ELSE /\ pc' = [pc EXCEPT ![p] = "done"]
            /\ resp' = [resp EXCEPT ![p] = Answer(kind, res)]

\* The store method of request p returned res, at a step after the first
Returned(p, res) == ReturnedTo(p, req[p].kind, res)

\* The handler of request p answers r without calling the store again
Answered(p, r) ==
    /\ pc' = [pc EXCEPT ![p] = "done"]
    /\ resp' = [resp EXCEPT ![p] = r]
    /\ result' = result

\* The store method of request p goes on to #atomicWrite(d) and will return res
ToWrite(p, d, res) ==
    /\ data' = [data EXCEPT ![p] = d]
    /\ result' = [result EXCEPT ![p] = res]
    /\ pc' = [pc EXCEPT ![p] = "writeFile"]
    /\ resp' = resp

\* POST /api/register up to the answer of isTeamNumberTaken
RegisterStart(p, r) ==
    /\ pc[p] = "idle"
    /\ r.kind = "register"
    /\ req' = [req EXCEPT ![p] = r]
    /\ IF r.teamNumber = <<>> \/ r.teamName = "" \/ r.teamLeader = ""
          \/ r.problemStatementId = ""
       THEN Answered(p, [status |-> 400, error |-> "Missing required fields"])
       ELSE IF IsTeamNumberTaken(r.teamNumber)
       THEN Answered(p, [status |-> 409, error |-> "Team number already registered."])
       ELSE /\ pc' = [pc EXCEPT ![p] = "getPs"]
            /\ UNCHANGED <<resp, result>>
    /\ UNCHANGED <<observers, received, committed, snapshot, backend, file, tmp, coll, data, writes>>

\* POST /api/register: getProblemStatementById
RegisterGetPs(p) ==
    /\ pc[p] = "getPs"
    /\ IF PsFound(req[p].problemStatementId)
       THEN /\ pc' = [pc EXCEPT ![p] = IF backend = "file" THEN "create" ELSE "transaction"]
            /\ UNCHANGED <<resp, result>>
       ELSE Answered(p, [status |-> 404, error |-> "Problem statement not found."])
    /\ UNCHANGED <<observers, received, committed, snapshot, backend, file, tmp, coll, req, data, writes>>

\* Mutant: the record is pushed and the file written before the checks decide,
\* so that a rejected call has written the file
FileCreateRegistrationAtomic_WriteBeforeCheck(p) ==
    /\ pc[p] = "create"
    /\ ToWrite(p, FilePushRegistration(file, req[p]),
               IF FileRegistrationAllowed(file, req[p]) THEN Changes(1) ELSE Null)
    /\ UNCHANGED <<observers, received, committed, snapshot, backend, file, tmp, coll, req, writes>>

\* DatabaseManager.createRegistrationAtomic: #read and the code up to #atomicWrite
FileCreateRegistrationAtomic(p) ==
    /\ pc[p] = "create"
    /\ IF FileRegistrationAllowed(file, req[p])
       THEN /\ ToWrite(p, FilePushRegistration(file, req[p]), Changes(1))
       ELSE /\ Returned(p, Null)
            /\ data' = data
    /\ UNCHANGED <<observers, received, committed, snapshot, backend, file, tmp, coll, req, writes>>

\* #atomicWrite: fsp.writeFile(tmpPath, str)
WriteFile(p) ==
    /\ pc[p] = "writeFile"
    /\ tmp' = <<data[p]>>
    /\ writes' = [writes EXCEPT ![p] = @ + 1]
    /\ pc' = [pc EXCEPT ![p] = "rename"]
    /\ UNCHANGED <<observers, received, committed, snapshot, backend, file, coll, req, data, result, resp>>

\* #atomicWrite: fsp.rename(tmpPath, dataFilePath); it throws when another
\* request's rename has already moved the temporary file away
Rename(p) ==
    /\ pc[p] = "rename"
    /\ IF tmp = NoFile
       THEN /\ Answered(p, Failure(req[p].kind))
            /\ UNCHANGED <<file, tmp, writes>>
       ELSE /\ file' = tmp[1]
            /\ tmp' = NoFile
            /\ writes' = [writes EXCEPT ![p] = @ + 1]
            /\ Returned(p, result[p])
    /\ data' = [data EXCEPT ![p] = NoData]
    /\ UNCHANGED <<observers, received, snapshot, backend, coll, req>>
    /\ Track(req[p].kind)

\* connectedClients
ConnectedClients == {o \in Observers : observers[o] = "subscribed"}

\* The type tag of the broadcast of a handler
TypeTag(kind) == IF kind = "register" THEN "registration" ELSE "registration-delete"

\* Mutant: the catch of broadcastUpdate without connectedClients.delete(client)
AfterPush_KeepFailed(status, failing) == status

\* broadcastUpdate, the catch: an observer whose write threw is deleted from
\* connectedClients
AfterPush(status, failing) ==
    [o \in Observers |-> IF o \in failing THEN "failed" ELSE status[o]]

\* broadcastUpdate(type, data): client.write(message) for each client of
\* connectedClients; the writes to the clients in `failing` throw
BroadcastUpdate(type, failing) ==
    /\ received' = [o \in Observers |->
                       IF o \in ConnectedClients \ failing
                       THEN Append(received[o], type) ELSE received[o]]
    /\ observers' = AfterPush(observers, failing)

\* The handler after a successful mutation: updatedRegistrations = await
\* db.getAllRegistrations() (MongoStore: its two finds taken at one instant)
ReadRegistrations(p) ==
    /\ pc[p] = "getAllRegistrations"
    /\ snapshot' = [snapshot EXCEPT ![p].registrations = GetAllRegistrations]
    /\ pc' = [pc EXCEPT ![p] = "getAllProblemStatements"]
    /\ UNCHANGED <<observers, received, committed, backend, file, tmp, coll, req, data,
                   result, resp, writes>>

\* updatedProblems = await db.getAllProblemStatements() (MongoStore: its two
\* finds taken at one instant)
ReadProblems(p) ==
    /\ pc[p] = "getAllProblemStatements"
    /\ snapshot' = [snapshot EXCEPT ![p].problems = GetAllProblemStatements]
    /\ pc' = [pc EXCEPT ![p] = "broadcast"]
    /\ UNCHANGED <<observers, received, committed, backend, file, tmp, coll, req, data,
                   result, resp, writes>>

\* The handler after the two reads: broadcastUpdate and the answer
Broadcast(p) ==
    /\ pc[p] = "broadcast"
    /\ \E failing \in SUBSET ConnectedClients : BroadcastUpdate(TypeTag(req[p].kind), failing)
    /\ Answered(p, Answer(req[p].kind, result[p]))
    /\ snapshot' = [snapshot EXCEPT ![p] = NoSnapshot]
    /\ UNCHANGED <<committed, backend, file, tmp, coll, req, data, writes>>

\* GET /api/events: connectedClients.add(res)
Subscribe(o) ==
    /\ observers[o] = "none"
    /\ observers' = [observers EXCEPT ![o] = "subscribed"]
    /\ UNCHANGED <<received, committed, snapshot, backend, file, tmp, coll, pc, req, data, result,
                   resp, writes>>

\* The number of messages written so far to the observers of a set
RECURSIVE TotalReceived(_)
TotalReceived(os) ==
    IF os = {} THEN 0
    ELSE LET o == CHOOSE x \in os : TRUE
         IN Len(received[o]) + TotalReceived(os \ {o})

\* Mutant: req.on('close') without clearInterval(heartbeat)
HeartbeatRunning_NotCleared(status) == status \in {"subscribed", "failed", "closed"}

\* Whether the interval timer of an observer is running: from setInterval to
\* the clearInterval of the close handler or of the heartbeat's own catch
HeartbeatRunning(status) == status \in {"subscribed", "failed"}

\* req.on('close'): clearInterval(heartbeat); connectedClients.delete(res)
Disconnect(o) ==
    /\ observers[o] \in {"subscribed", "failed", "stopped"}
    /\ observers' = [observers EXCEPT ![o] = "closed"]
    /\ UNCHANGED <<received, committed, snapshot, backend, file, tmp, coll, pc, req, data, result,
                   resp, writes>>

\* The callback of setInterval: res.write(heartbeat), which either succeeds or
\* throws into clearInterval(heartbeat); connectedClients.delete(res)
Heartbeat(o) ==
    /\ HeartbeatRunning(observers[o])
    /\ TotalReceived(Observers) < MaxReceived
    /\ \/ /\ received' = [received EXCEPT ![o] = Append(@, "heartbeat")]
          /\ observers' = observers
       \/ /\ observers' = [observers EXCEPT ![o] = "stopped"]
          /\ received' = received
    /\ UNCHANGED <<committed, snapshot, backend, file, tmp, coll, pc, req, data, result,
                   resp, writes>>

\* MongoStore.createRegistrationAtomic: the transaction's callback up to
\* insertOne.  The three reads see one snapshot, taken at the first of them.
MongoTransaction(p) ==
    /\ pc[p] = "transaction"
    /\ IF MongoRegistrationAllowed(coll, req[p])
       THEN /\ data' = [data EXCEPT ![p] =
                           [NoData EXCEPT !.registrations =
                               <<Record(req[p], Trim(req[p].teamNumber))>>]]
            /\ pc' = [pc EXCEPT ![p] = "insertOne"]
            /\ UNCHANGED <<resp, result>>
       ELSE /\ Returned(p, Null)
            /\ data' = data
    /\ UNCHANGED <<observers, received, committed, snapshot, backend, file, tmp, coll, req, writes>>

\* Another transaction holds an uncommitted insert of the same teamNumber
MongoPendingKey(p, target) ==
    \E q \in Procs \ {p} :
        /\ pc[q] = "commit"
        /\ data[q].registrations[1].teamNumber = target

\* Mutant: the duplicate key error of the insert is thrown on to the handler
MongoInsertOne_Rethrow(p) ==
    /\ pc[p] = "insertOne"
    /\ IF MongoPendingKey(p, data[p].registrations[1].teamNumber)
       THEN /\ pc' = [pc EXCEPT ![p] = "transaction"]
            /\ UNCHANGED <<resp, result>>
       ELSE IF MongoFindTeam(coll, data[p].registrations[1].teamNumber)
       THEN \/ /\ pc' = [pc EXCEPT ![p] = "transaction"]
               /\ UNCHANGED <<resp, result>>
            \/ Answered(p, Failure("register"))
       ELSE /\ pc' = [pc EXCEPT ![p] = "commit"]
            /\ UNCHANGED <<resp, result>>
    /\ UNCHANGED <<observers, received, committed, snapshot, backend, file, tmp, coll, req, data, writes>>

\* regs.insertOne(record, { session }): a write to a unique key that another
\* transaction wrote since the snapshot conflicts; withTransaction then runs
\* the callback again (a transient error), or the insert fails with the
\* duplicate key error 11000, which createRegistrationAtomic turns into null.
MongoInsertOne(p) ==
    /\ pc[p] = "insertOne"
    /\ IF MongoPendingKey(p, data[p].registrations[1].teamNumber)
       THEN /\ pc' = [pc EXCEPT ![p] = "transaction"]
            /\ UNCHANGED <<resp, result>>
       ELSE IF MongoFindTeam(coll, data[p].registrations[1].teamNumber)
       THEN \/ /\ pc' = [pc EXCEPT ![p] = "transaction"]
               /\ UNCHANGED <<resp, result>>
            \/ Returned(p, Null)
       ELSE /\ pc' = [pc EXCEPT ![p] = "commit"]
            /\ UNCHANGED <<resp, result>>
    /\ UNCHANGED <<observers, received, committed, snapshot, backend, file, tmp, coll, req, data, writes>>

\* The commit of the transaction
MongoCommit(p) ==
    /\ pc[p] = "commit"
    /\ coll' = [coll EXCEPT !.regs = Append(@, data[p].registrations[1])]
    /\ writes' = [writes EXCEPT ![p] = @ + 1]
    /\ Returned(p, Changes(1))
    /\ data' = [data EXCEPT ![p] = NoData]
    /\ UNCHANGED <<observers, received, snapshot, backend, file, tmp, req>>
    /\ Track("register")

\* DELETE /api/registration/:teamNumber
DeleteRegistration(p, r) ==
    /\ pc[p] = "idle"
    /\ r.kind = "deleteRegistration"
    /\ req' = [req EXCEPT ![p] = r]
    /\ IF backend = "file"
       THEN /\ ToWrite(p, FileWithoutTeam(file, r.teamNumber),
                       Changes(Len(file.registrations)
                               - Len(FileWithoutTeam(file, r.teamNumber).registrations)))
            /\ UNCHANGED <<coll, writes>>
       ELSE /\ coll' = MongoDeleteOneReg(coll, Trim(r.teamNumber))
            /\ writes' = [writes EXCEPT ![p] = @ + 1]
            /\ data' = data
            /\ pc' = [pc EXCEPT ![p] =
                        IF MongoFindTeam(coll, Trim(r.teamNumber))
                        THEN "getAllRegistrations" ELSE "done"]
            /\ result' = [result EXCEPT ![p] =
                            Changes(IF MongoFindTeam(coll, Trim(r.teamNumber)) THEN 1 ELSE 0)]
            /\ resp' = [resp EXCEPT ![p] =
                            IF MongoFindTeam(coll, Trim(r.teamNumber)) THEN NoResp
                            ELSE Answer("deleteRegistration", Changes(0))]
    /\ UNCHANGED <<observers, received, snapshot, backend, file, tmp>>
    /\ Track("deleteRegistration")

\* DELETE /api/problem-statements/:id; MongoStore: ps.deleteOne
DeleteProblemStatement(p, r) ==
    /\ pc[p] = "idle"
    /\ r.kind = "deleteProblemStatement"
    /\ req' = [req EXCEPT ![p] = r]
    /\ IF backend = "file"
       THEN /\ ToWrite(p, FileWithoutPs(file, r.problemStatementId),
                       Changes(Len(file.problemStatements)
                               - Len(FileWithoutPs(file, r.problemStatementId).problemStatements)))
            /\ UNCHANGED <<coll, writes>>
       ELSE /\ coll' = MongoDeleteOnePs(coll, r.problemStatementId)
            /\ writes' = [writes EXCEPT ![p] = @ + 1]
            /\ result' = [result EXCEPT ![p] =
                            Changes(IF MongoFindPs(coll, r.problemStatementId) # 0 THEN 1 ELSE 0)]
            /\ pc' = [pc EXCEPT ![p] = "deleteMany"]
            /\ UNCHANGED <<data, resp>>
    /\ UNCHANGED <<observers, received, committed, snapshot, backend, file, tmp>>

\* MongoStore.deleteProblemStatement: regs.deleteMany
MongoDeleteMany(p) ==
    /\ pc[p] = "deleteMany"
    /\ coll' = MongoDeleteManyRegs(coll, req[p].problemStatementId)
    /\ writes' = [writes EXCEPT ![p] = @ + 1]
    /\ Returned(p, result[p])
    /\ UNCHANGED <<observers, received, snapshot, backend, file, tmp, req, data>>
    /\ Track("deleteProblemStatement")

\* POST /api/problem-statements
CreateProblemStatement(p, r) ==
    /\ pc[p] = "idle"
    /\ r.kind = "createProblemStatement"
    /\ req' = [req EXCEPT ![p] = r]
    /\ IF backend = "file"
       THEN /\ IF FileFindPs(file, r.problemStatementId) # 0
               THEN /\ ReturnedTo(p, r.kind, Changes(0))
                    /\ data' = data
               ELSE ToWrite(p, [file EXCEPT !.problemStatements = Append(@, FileNewPs(r))],
                            Changes(1))
            /\ UNCHANGED <<coll, writes>>
       ELSE /\ IF MongoFindPs(coll, r.problemStatementId) # 0
               THEN /\ ReturnedTo(p, r.kind, Changes(0))
                    /\ UNCHANGED <<coll, writes>>
               ELSE /\ coll' = [coll EXCEPT !.ps = Append(@, MongoNewPs(r))]
                    /\ writes' = [writes EXCEPT ![p] = @ + 1]
                    /\ ReturnedTo(p, r.kind, Changes(1))
            /\ data' = data
    /\ UNCHANGED <<observers, received, committed, snapshot, backend, file, tmp>>

\* DELETE /api/registration/:teamNumber over DatabaseManager when readFile or
\* JSON.parse threw in #read: the method works on a copy of defaultData
DeleteRegistrationReadFailed(p, r) ==
    /\ pc[p] = "idle"
    /\ r.kind = "deleteRegistration"
    /\ backend = "file"
    /\ req' = [req EXCEPT ![p] = r]
    /\ ToWrite(p, FileWithoutTeam(NoData, r.teamNumber),
               Changes(Len(NoData.registrations)
                       - Len(FileWithoutTeam(NoData, r.teamNumber).registrations)))
    /\ UNCHANGED <<observers, received, snapshot, backend, file, tmp, coll, writes>>
    /\ Track("deleteRegistration")

\* POST /api/problem-statements over DatabaseManager when readFile or
\* JSON.parse threw in #read
CreateProblemStatementReadFailed(p, r) ==
    /\ pc[p] = "idle"
    /\ r.kind = "createProblemStatement"
    /\ backend = "file"
    /\ req' = [req EXCEPT ![p] = r]
    /\ ToWrite(p, [NoData EXCEPT !.problemStatements = Append(@, FileNewPs(r))],
               Changes(1))
    /\ UNCHANGED <<observers, received, committed, snapshot, backend, file, tmp, coll, writes>>

\* PUT /api/problem-statements/:id
UpdateProblemStatement(p, r) ==
    /\ pc[p] = "idle"
    /\ r.kind = "updateProblemStatement"
    /\ req' = [req EXCEPT ![p] = r]
    /\ IF backend = "file"
       THEN /\ IF FileFindPs(file, r.problemStatementId) = 0
               THEN /\ ReturnedTo(p, r.kind, Changes(0))
                    /\ data' = data
               ELSE ToWrite(p, [file EXCEPT
                                  !.problemStatements[FileFindPs(file, r.problemStatementId)] =
                                      FileMergePs(@, r)],
                            Changes(1))
            /\ UNCHANGED <<coll, writes>>
       ELSE /\ \/ /\ MongoEmptySet(r)
                  /\ Answered(p, Failure(r.kind))
                  /\ UNCHANGED <<coll, writes>>
               \/ IF MongoFindPs(coll, r.problemStatementId) = 0
                  THEN /\ ReturnedTo(p, r.kind, Changes(0))
                       /\ UNCHANGED <<coll, writes>>
                  ELSE /\ coll' = [coll EXCEPT !.ps[MongoFindPs(coll, r.problemStatementId)] =
                                                   MongoSetPs(@, r)]
                       /\ writes' = [writes EXCEPT ![p] = @ + 1]
                       /\ ReturnedTo(p, r.kind, Changes(
                             IF MongoSetPs(coll.ps[MongoFindPs(coll, r.problemStatementId)], r)
                                  = coll.ps[MongoFindPs(coll, r.problemStatementId)]
                             THEN 0 ELSE 1))
            /\ data' = data
    /\ UNCHANGED <<observers, received, committed, snapshot, backend, file, tmp>>

\* db.importFromJSON(jsonData); MongoStore: up to the answer of ps.find
ImportFromJSON(p, r) ==
    /\ pc[p] = "idle"
    /\ r.kind = "import"
    /\ req' = [req EXCEPT ![p] = r]
    /\ IF backend = "file"
       THEN ToWrite(p, [file EXCEPT !.problemStatements = @ \o FileToInsert(file, r.list)],
                    Changes(0))
       ELSE /\ data' = [data EXCEPT ![p] =
                           [NoData EXCEPT !.problemStatements = MongoToInsert(coll, r.list)]]
            /\ pc' = [pc EXCEPT ![p] = "insertMany"]
            /\ UNCHANGED <<result, resp>>
    /\ UNCHANGED <<observers, received, committed, snapshot, backend, file, tmp, coll, writes>>

\* MongoStore.importFromJSON: if (toInsert.length) await ps.insertMany(toInsert)
MongoInsertMany(p) ==
    /\ pc[p] = "insertMany"
    /\ coll' = MongoInsertManyPs(coll, data[p].problemStatements)
    /\ writes' = [writes EXCEPT ![p] =
                    IF data[p].problemStatements = <<>> THEN @ ELSE @ + 1]
    /\ IF Len(MongoInsertManyPs(coll, data[p].problemStatements).ps)
            = Len(coll.ps) + Len(data[p].problemStatements)
       THEN Returned(p, Changes(0))
       ELSE Answered(p, Failure(req[p].kind))
    /\ data' = [data EXCEPT ![p] = NoData]
    /\ UNCHANGED <<observers, received, committed, snapshot, backend, file, tmp, req>>

\* The default problem statements MongoStore.init seeds
Defaults ==
    << [id |-> "ps001", title |-> "seed", maxSelections |-> Num(SeedMaxSelections)],
       [id |-> "ps002", title |-> "seed", maxSelections |-> Num(SeedMaxSelections)],
       [id |-> "ps003", title |-> "seed", maxSelections |-> Num(SeedMaxSelections)] >>

\* MongoStore.init on a store whose this.db is set or not: it returns at once
\* when this.db is set, and otherwise seeds the defaults into an empty
\* problem-statements collection
MongoInit(c, db) ==
    IF db THEN c
    ELSE IF c.ps = <<>> THEN [c EXCEPT !.ps = Defaults] ELSE c

\* MongoStore.resetAll on an initialised store: regs.deleteMany({})
ResetAll(p, r) ==
    /\ pc[p] = "idle"
    /\ r.kind = "resetAll"
    /\ backend = "mongo"
    /\ req' = [req EXCEPT ![p] = r]
    /\ coll' = [coll EXCEPT !.regs = <<>>]
    /\ writes' = [writes EXCEPT ![p] = @ + 1]
    /\ pc' = [pc EXCEPT ![p] = "resetPs"]
    /\ UNCHANGED <<observers, received, snapshot, backend, file, tmp, data, result, resp>>
    /\ Track("resetAll")

\* MongoStore.resetAll: ps.deleteMany({})
ResetAllPs(p) ==
    /\ pc[p] = "resetPs"
    /\ coll' = [coll EXCEPT !.ps = <<>>]
    /\ writes' = [writes EXCEPT ![p] = @ + 1]
    /\ pc' = [pc EXCEPT ![p] = "resetInit"]
    /\ UNCHANGED <<observers, received, committed, snapshot, backend, file, tmp, req, data,
                   result, resp>>

\* MongoStore.resetAll: await this.init(); return true.  this.db was set by
\* the init that initialised the store.
ResetAllInit(p) ==
    /\ pc[p] = "resetInit"
    /\ coll' = MongoInit(coll, TRUE)
    /\ Returned(p, Changes(1))
    /\ UNCHANGED <<observers, received, committed, snapshot, backend, file, tmp, req, data,
                   writes>>

----------------------------------------------------------------------------
(* Inputs and specifications *)

T1 == <<"1">>
T2 == <<"2">>
T3 == <<"3">>
T1Padded == <<" ", "1">>
TBlank == <<" ">>

Ps(id, m) == [id |-> id, title |-> "seed", maxSelections |-> Num(m)]

RegisterReqs(teams, ids) ==
    {[NoReq EXCEPT !.kind = "register", !.teamNumber = t, !.teamName = "name",
                   !.teamLeader = "leader", !.problemStatementId = i] :
        t \in teams, i \in ids}

IdReqs(kind, ids) ==
    {[NoReq EXCEPT !.kind = kind, !.problemStatementId = i] : i \in ids}

TeamReqs(kind, teams) ==
    {[NoReq EXCEPT !.kind = kind, !.teamNumber = t] : t \in teams}

PsReqs(kind, ids, titles, maxes) ==
    {[NoReq EXCEPT !.kind = kind, !.problemStatementId = i, !.title = t,
                   !.maxSelections = m] : i \in ids, t \in titles, m \in maxes}

InitWith(backends, catalogs) ==
    /\ backend \in backends
    /\ \E c \in catalogs :
        /\ file = [problemStatements |-> c, registrations |-> <<>>]
        /\ coll = [ps |-> c, regs |-> <<>>]
    /\ tmp = NoFile
    /\ pc = [p \in Procs |-> "idle"]
    /\ req = [p \in Procs |-> NoReq]
    /\ data = [p \in Procs |-> NoData]
    /\ result = [p \in Procs |-> Null]
    /\ resp = [p \in Procs |-> NoResp]
    /\ writes = [p \in Procs |-> 0]
    /\ committed = {}
    /\ observers = [o \in Observers |-> "none"]
    /\ received = [o \in Observers |-> <<>>]
    /\ snapshot = [p \in Procs |-> NoSnapshot]

\* The steps of a request after its first
Continue(p) ==
    \/ RegisterGetPs(p)
    \/ FileCreateRegistrationAtomic(p)
    \/ WriteFile(p)
    \/ Rename(p)
    \/ MongoTransaction(p)
    \/ MongoInsertOne(p)
    \/ MongoCommit(p)
    \/ ReadRegistrations(p)
    \/ ReadProblems(p)
    \/ Broadcast(p)

(* Concurrent registrations over a fixed catalog: ps001 with room for one or
   for two teams, ps002 with room for one. *)
RegCatalogs == {<<Ps("ps001", m), Ps("ps002", 1)>> : m \in {1, SeedMaxSelections}}

InitReg == InitWith({"file", "mongo"}, RegCatalogs)

NextReg ==
    \E p \in Procs :
        \/ \E r \in RegisterReqs({T1, T2, T3}, {"ps001", "ps002"}) : RegisterStart(p, r)
        \/ Continue(p)

SpecReg == InitReg /\ [][NextReg]_vars

(* Registrations concurrent with the deletion of a problem statement. *)
NextDel ==
    \E p \in Procs :
        \/ \E r \in RegisterReqs({T1, T2}, {"ps001", "ps002"}) : RegisterStart(p, r)
        \/ \E r \in IdReqs("deleteProblemStatement", {"ps001"}) : DeleteProblemStatement(p, r)
        \/ MongoDeleteMany(p)
        \/ Continue(p)

SpecDel == InitReg /\ [][NextDel]_vars

(* Every operation, any interleaving.  The catalog starts with ps001; ps003
   is created by a request, with or without a maxSelections. *)
Catalogs == {<<Ps("ps001", m)>> : m \in {1, SeedMaxSelections}}

Init == InitWith({"file", "mongo"}, Catalogs)

Start(p) ==
    \/ \E r \in RegisterReqs({T1, T2, T1Padded}, {"ps001", "ps003"}) : RegisterStart(p, r)
    \/ \E r \in TeamReqs("deleteRegistration", {T1}) : DeleteRegistration(p, r)
    \/ \E r \in IdReqs("deleteProblemStatement", {"ps001"}) : DeleteProblemStatement(p, r)
    \/ \E r \in PsReqs("createProblemStatement", {"ps003"}, {"new"}, {Undef, Num(1)}) :
            CreateProblemStatement(p, r)
    \/ \E r \in PsReqs("updateProblemStatement", {"ps001"}, {Absent, "new"}, {Undef, Num(1)}) :
            UpdateProblemStatement(p, r)

Next ==
    \E p \in Procs :
        \/ Start(p)
        \/ MongoDeleteMany(p)
        \/ Continue(p)

Spec == Init /\ [][Next]_vars

(* Every operation, one request at a time. *)
Quiet == \A q \in Procs : pc[q] \in {"idle", "done"}

NextSolo ==
    \E p \in Procs :
        \/ Quiet /\ Start(p)
        \/ MongoDeleteMany(p)
        \/ Continue(p)

SpecSolo == Init /\ [][NextSolo]_vars

(* Registrations one after another and overlapping: a client whose request
   was answered sends a further request. *)
Again(p) ==
    /\ pc[p] = "done"
    /\ pc' = [pc EXCEPT ![p] = "idle"]
    /\ req' = [req EXCEPT ![p] = NoReq]
    /\ result' = [result EXCEPT ![p] = Null]
    /\ resp' = [resp EXCEPT ![p] = NoResp]
    /\ writes' = [writes EXCEPT ![p] = 0]
    /\ snapshot' = [snapshot EXCEPT ![p] = NoSnapshot]
    /\ UNCHANGED <<observers, received, committed, backend, file, tmp, coll, data>>

NextAgain ==
    \E p \in Procs :
        \/ \E r \in RegisterReqs({T1, T2}, {"ps001", "ps002", "ps003"}) : RegisterStart(p, r)
        \/ Continue(p)
        \/ Again(p)

SpecAgain == InitReg /\ [][NextAgain]_vars

(* Registrations and their deletions, one request at a time, a client sending
   a further request when its request was answered. *)
NextSeq ==
    \E p \in Procs :
        \/ /\ Quiet
           /\ \E r \in RegisterReqs({T1, T2, T1Padded, TBlank}, {"ps001"}) :
                    RegisterStart(p, r)
        \/ /\ Quiet
           /\ \E r \in TeamReqs("deleteRegistration", {T1, T1Padded}) :
                    DeleteRegistration(p, r)
        \/ Continue(p)
        \/ Again(p)

SpecSeq == Init /\ [][NextSeq]_vars

(* Registrations and updates of the problem statement they reference, one
   request at a time. *)
NextCap ==
    \E p \in Procs :
        \/ /\ Quiet
           /\ \E r \in RegisterReqs({T1, T2}, {"ps001"}) : RegisterStart(p, r)
        \/ /\ Quiet
           /\ \E r \in PsReqs("updateProblemStatement", {"ps001"}, {Absent, "new"},
                               {Undef, Num(1)}) :
                    UpdateProblemStatement(p, r)
        \/ Continue(p)
        \/ Again(p)

InitCap == InitWith({"file", "mongo"}, {<<Ps("ps001", SeedMaxSelections)>>})

SpecCap == InitCap /\ [][NextCap]_vars

(* Requests one at a time over a data file whose read may fail: registrations,
   and deleteRegistration and createProblemStatement with the read of
   data.json succeeding or falling back to the default data. *)
NextReadFail ==
    \E p \in Procs :
        \/ Quiet /\ \E r \in RegisterReqs({T1, T2}, {"ps001"}) : RegisterStart(p, r)
        \/ Quiet /\ \E r \in TeamReqs("deleteRegistration", {T1}) :
                        DeleteRegistration(p, r)
        \/ Quiet /\ \E r \in TeamReqs("deleteRegistration", {T1}) :
                        DeleteRegistrationReadFailed(p, r)
        \/ Quiet /\ \E r \in PsReqs("createProblemStatement", {"ps003"}, {"new"}, {Num(1)}) :
                        CreateProblemStatement(p, r)
        \/ Quiet /\ \E r \in PsReqs("createProblemStatement", {"ps003"}, {"new"}, {Num(1)}) :
                        CreateProblemStatementReadFailed(p, r)
        \/ Continue(p)

SpecReadFail == InitCap /\ [][NextReadFail]_vars

(* MongoStore as a first init on an empty database leaves it, with
   registrations and resetAll, one call at a time. *)
InitReset == InitWith({"mongo"}, {MongoInit([ps |-> <<>>, regs |-> <<>>], FALSE).ps})

NextReset ==
    \E p \in Procs :
        \/ Quiet /\ \E r \in RegisterReqs({T1, T2}, {"ps001", "ps002"}) : RegisterStart(p, r)
        \/ Quiet /\ ResetAll(p, [NoReq EXCEPT !.kind = "resetAll"])
        \/ ResetAllPs(p)
        \/ ResetAllInit(p)
        \/ RegisterGetPs(p)
        \/ MongoTransaction(p)
        \/ MongoInsertOne(p)
        \/ MongoCommit(p)
        \/ ReadRegistrations(p)
        \/ ReadProblems(p)
        \/ Broadcast(p)
        \/ Again(p)

SpecReset == InitReset /\ [][NextReset]_vars

(* importFromJSON among registrations, one call at a time.  A list names
   problem statements that are in the catalog and new ones, one of them twice. *)
Item(id, m) == [id |-> id, title |-> "imported", maxSelections |-> m]

ImportLists ==
    { <<>>,
      <<Item("ps001", Num(1)), Item("ps003", Undef)>>,
      <<Item("ps003", Num(1)), Item("ps003", Num(1)), Item("ps004", Num(1))>> }

ImportReqs == {[NoReq EXCEPT !.kind = "import", !.list = l] : l \in ImportLists}

NextImport ==
    \E p \in Procs :
        \/ Quiet /\ \E r \in ImportReqs : ImportFromJSON(p, r)
        \/ Quiet /\ \E r \in RegisterReqs({T1, T2}, {"ps001", "ps003"}) : RegisterStart(p, r)
        \/ MongoInsertMany(p)
        \/ Continue(p)
        \/ Again(p)

SpecImport == Init /\ [][NextImport]_vars

(* Observers of the live-update stream subscribing, disconnecting and being
   sent heartbeats while teams register for ps001, one request at a time. *)
InitObs == InitWith({"file", "mongo"}, {<<Ps("ps001", SeedMaxSelections)>>})

NextObs ==
    \/ \E o \in Observers : Subscribe(o) \/ Disconnect(o) \/ Heartbeat(o)
    \/ \E p \in Procs :
        \/ Quiet /\ \E r \in RegisterReqs({T1}, {"ps001"}) : RegisterStart(p, r)
        \/ Continue(p)

SpecObs == InitObs /\ [][NextObs]_vars

(* One observer subscribing or disconnecting at any time while any of the
   mutating requests runs, one request at a time. *)
NextObsAll ==
    \/ Subscribe(1) \/ Disconnect(1)
    \/ \E p \in Procs :
        \/ Quiet /\ \E r \in RegisterReqs({T1}, {"ps001"}) : RegisterStart(p, r)
        \/ Quiet /\ \E r \in TeamReqs("deleteRegistration", {T1}) : DeleteRegistration(p, r)
        \/ Quiet /\ \E r \in IdReqs("deleteProblemStatement", {"ps001"}) :
                        DeleteProblemStatement(p, r)
        \/ Quiet /\ \E r \in PsReqs("createProblemStatement", {"ps003"}, {"new"}, {Num(1)}) :
                        CreateProblemStatement(p, r)
        \/ Quiet /\ \E r \in PsReqs("updateProblemStatement", {"ps001"}, {"new"}, {Undef}) :
                        UpdateProblemStatement(p, r)
        \/ MongoDeleteMany(p)
        \/ Continue(p)

SpecObsAll == Init /\ [][NextObsAll]_vars

----------------------------------------------------------------------------
(* Claims checked under SpecReg *)

Registers == {p \in Procs : req[p].kind = "register"}
Succeeded == {p \in Registers : pc[p] = "done" /\ resp[p].status = 200}
AllAnswered == \A p \in Procs : pc[p] = "done"

\* maxSelections of problem statement number i of the catalog, as a number
MaxOf(i) == Catalog[i].maxSelections.v

\* C1: DatabaseManager, fixed catalog with integer maxSelections >= 1: in every
\* reachable state of the data file, under any interleaving of register
\* requests, the registrations referencing P number at most P.maxSelections.
C1_FileCapacity ==
    backend = "file" =>
        \A i \in DOMAIN file.problemStatements :
            FileCount(file, file.problemStatements[i].id)
                <= file.problemStatements[i].maxSelections.v

\* C1 witness: two requests for the one slot of ps002 both passed the checks of
\* createRegistrationAtomic and both wrote the file, which holds one of them.
C1_Witness ==
    /\ backend = "file"
    /\ \A p \in Procs :
        /\ pc[p] = "done"
        /\ req[p].problemStatementId = "ps002"
        /\ result[p] = Changes(1)
        /\ writes[p] = 2
    /\ FileCount(file, "ps002") = 1

\* C2: MongoStore: the committed registrations collection never holds more
\* than max(1, P.maxSelections) registrations referencing P, under any
\* interleaving of register transactions.
C2_MongoCapacity ==
    backend = "mongo" =>
        \A i \in DOMAIN coll.ps :
            MongoCount(coll, coll.ps[i].id) <= MongoMaxSel(coll.ps[i].maxSelections)

\* C3: N + K concurrent register requests (K >= 1) with distinct team numbers
\* for a problem statement with N slots and no registrations, over
\* DatabaseManager: exactly N are answered with success and K are rejected.
C3_ExactlyNSucceed ==
    \A i \in DOMAIN Catalog :
        ( /\ backend = "file"
          /\ AllAnswered
          /\ \A p \in Procs : req[p].problemStatementId = Catalog[i].id
          /\ \A p, q \in Procs : p # q => req[p].teamNumber # req[q].teamNumber
          /\ NumProcs > MaxOf(i) )
        => /\ Cardinality(Succeeded) = MaxOf(i)
           /\ Cardinality(Procs \ Succeeded) = NumProcs - MaxOf(i)

\* C5: concurrent register requests with one and the same teamNumber over
\* DatabaseManager: exactly one is answered with success, every other with
\* the DuplicateTeam rejection (409).
C5_OneSuccessPerTeam ==
    ( /\ backend = "file"
      /\ AllAnswered
      /\ \A p, q \in Procs : req[p].teamNumber = req[q].teamNumber )
    => /\ Cardinality(Succeeded) = 1
       /\ \A p \in Procs \ Succeeded : resp[p].status # 200

\* C8: once a register request has been answered with success, its team's
\* registration, if in the Ledger, is in the Ledger after every step (no
\* request of SpecReg deletes a registration or a problem statement).
C8_AnsweredStaysRegistered ==
    [][\A p \in Succeeded :
        (\E i \in DOMAIN Ledger : Ledger[i].teamNumber = Key(req[p].teamNumber))
            => (\E i \in DOMAIN Ledger' : Ledger'[i].teamNumber = Key(req[p].teamNumber))]_vars

----------------------------------------------------------------------------
(* Claims checked under Spec, SpecSolo and SpecDel *)

\* C4: in every reachable state of either store the Ledger holds at most one
\* registration for each stored teamNumber value.
C4_UniqueTeamNumber ==
    \A i, j \in DOMAIN Ledger :
        i # j => Ledger[i].teamNumber # Ledger[j].teamNumber

\* C4 witness: two register requests with the same teamNumber both passed the
\* handler's isTeamNumberTaken; one committed and is in the Ledger, the other
\* was turned down inside createRegistrationAtomic although its problem
\* statement has room.
C4_Witness ==
    \E p, q \in Registers :
        /\ p # q
        /\ Key(req[p].teamNumber) = Key(req[q].teamNumber)
        /\ req[q].problemStatementId = "ps001"
        /\ pc[p] = "done" /\ resp[p].status = 200
        /\ pc[q] = "done" /\ result[q] = Null
        /\ resp[q].error = "Problem statement is full or team already registered."
        /\ Key(req[p].teamNumber) \in LedgerTeams
        /\ "ps001" \in CatalogIds
        /\ CountFor("ps001") = 1
        /\ Catalog[1].maxSelections = Num(SeedMaxSelections)

\* The condition of C6 on the store as request r finds it
C6_Condition(r) ==
    /\ Key(r.teamNumber) \notin LedgerTeams
    /\ \E i \in DOMAIN Catalog :
        /\ Catalog[i].id = r.problemStatementId
        /\ JsLT(CountFor(r.problemStatementId), Catalog[i].maxSelections)

\* C6: run alone, createRegistrationAtomic goes on to its write if and only if
\* the team number is not in the Ledger, the problem statement exists and
\* fewer than maxSelections registrations reference it; and when it returns
\* its record, the Ledger is the Ledger before it with that one record appended.
C6_SoloRegister ==
    [][\A p \in Procs :
        /\ (pc[p] \in {"create", "transaction"} /\ pc'[p] # pc[p])
              => (pc'[p] \in {"writeFile", "insertOne"} <=> C6_Condition(req[p]))
        /\ (req[p].kind = "register" /\ pc[p] \in {"rename", "commit"}
                /\ pc'[p] = "getAllRegistrations")
              => Ledger' = Append(Ledger, Record(req[p], Key(req[p].teamNumber)))]_vars

Rejected(p) ==
    /\ req[p].kind = "register"
    /\ pc[p] = "done"
    /\ resp[p].status \in {404, 409}

\* C7: a register request that is rejected (DuplicateTeam, UnknownProblem or
\* ProblemFull) has performed no write to the store.
C7_RejectedWritesNothing ==
    \A p \in Procs : Rejected(p) => writes[p] = 0

\* C7 witness: a request was rejected inside createRegistrationAtomic, after
\* another request's registration was written to the store.
C7_Witness ==
    \E p, q \in Procs :
        /\ Rejected(p) /\ result[p] = Null /\ writes[p] = 0
        /\ resp[p].error = "Problem statement is full or team already registered."
        /\ req[q].kind = "register" /\ pc[q] = "done" /\ resp[q].status = 200
        /\ Ledger # <<>>

\* C9: a registration that enters the Ledger references a problem statement
\* that is in the Catalog at that instant.
C9_CommittedRefersToCatalog ==
    [][\A i \in DOMAIN Ledger' :
        Ledger'[i] \notin Range(Ledger)
            => Ledger'[i].problemStatementId \in CatalogIds']_vars

\* C10: once deleteProblemStatement(P) has returned, P is not in the Catalog
\* and no registration in the Ledger references P (no request of SpecDel
\* creates a problem statement).
C10_DeletedStaysDeleted ==
    \A p \in Procs :
        (req[p].kind = "deleteProblemStatement" /\ pc[p] = "done" /\ resp[p].status = 200)
            => /\ req[p].problemStatementId \notin CatalogIds
               /\ CountFor(req[p].problemStatementId) = 0

----------------------------------------------------------------------------
(* Claims about the read model and the rejections *)

\* C11: in every state getAllProblemStatements reports, for every catalog
\* entry P, selected_count = the number of Ledger registrations referencing P
\* and is_available = (selected_count < maxSelections of P); so after k
\* registrations against P it reports k and (k < maxSelections).
C11_Projection ==
    /\ DOMAIN GetAllProblemStatements = DOMAIN Catalog
    /\ \A i \in DOMAIN Catalog :
        /\ GetAllProblemStatements[i].id = Catalog[i].id
        /\ GetAllProblemStatements[i].selected_count = CountFor(Catalog[i].id)
        /\ GetAllProblemStatements[i].is_available
              = JsLT(GetAllProblemStatements[i].selected_count, Catalog[i].maxSelections)

\* C11 witness: two teams were registered against ps001, which has two slots;
\* the report says selected_count 2 and is_available false.
C11_Witness ==
    /\ \A p \in Procs : pc[p] = "done" /\ req[p].kind = "register" /\ resp[p].status = 200
    /\ Catalog[1] = Ps("ps001", SeedMaxSelections)
    /\ CountFor("ps001") = SeedMaxSelections
    /\ GetAllProblemStatements[1].selected_count = SeedMaxSelections
    /\ GetAllProblemStatements[1].is_available = FALSE

DuplicateTeam == [status |-> 409, error |-> "Team number already registered."]

\* C12: when team number T has been committed to the Ledger, a register
\* request with teamNumber T that arrives later is rejected with DuplicateTeam,
\* whatever problem statement it names and whatever other teams registered in
\* between (no request of SpecAgain deletes a registration).
C12_CommittedTeamRejected ==
    [][\A p \in Procs :
        ( /\ pc[p] = "idle" /\ pc'[p] # "idle"
          /\ req'[p].kind = "register"
          /\ Key(req'[p].teamNumber) \in committed )
        => /\ pc'[p] = "done"
           /\ resp'[p] = DuplicateTeam]_vars

\* The precondition of register that fails for request r on the store as it
\* is, the three taken in the order of the specification
Cause(r) ==
    IF Key(r.teamNumber) \in LedgerTeams THEN "DuplicateTeam"
    ELSE IF r.problemStatementId \notin CatalogIds THEN "UnknownProblem"
    ELSE "ProblemFull"

\* C13: a rejection of POST /api/register tells which precondition failed,
\* also when createRegistrationAtomic detects it: an UnknownProblem rejection
\* is answered 404, and a DuplicateTeam rejection is answered differently from
\* the way a ProblemFull rejection is answered.
C13_RejectionsDistinguishable ==
    [][\A p \in Procs :
        ( /\ req'[p].kind = "register"
          /\ pc[p] # "done" /\ pc'[p] = "done"
          /\ resp'[p].status \in {404, 409} )
        => /\ Cause(req'[p]) = "UnknownProblem" => resp'[p].status = 404
           /\ Cause(req'[p]) = "DuplicateTeam" => resp'[p] # Answer("register", Null)]_vars

\* C14: the preconditions of register are evaluated in the order team
\* uniqueness, problem existence, capacity: a request that arrives with a
\* teamNumber already registered is rejected as DuplicateTeam even if its
\* problem statement is unknown or full, and a request whose problem statement
\* is unknown is never answered as ProblemFull.
C14_PreconditionOrder ==
    [][\A p \in Procs :
        ( /\ req'[p].kind = "register"
          /\ pc[p] # "done" /\ pc'[p] = "done"
          /\ resp'[p].status \in {404, 409} )
        => /\ (pc[p] = "idle" /\ Key(req'[p].teamNumber) \in LedgerTeams)
                => resp'[p] = DuplicateTeam
           /\ (pc[p] # "idle" /\ Cause(req'[p]) = "UnknownProblem")
                => resp'[p].error # Answer("register", Null).error]_vars

----------------------------------------------------------------------------
(* Claims about the catalog operations *)

\* C15: run alone, createProblemStatement with an id already in the Catalog
\* is answered differently from a successful creation and leaves the store
\* unchanged; with a fresh id it adds exactly one record, and nothing else
\* changes.
C15_CreateAlreadyExists ==
    [][\A p \in Procs :
        (req'[p].kind = "createProblemStatement" /\ pc'[p] # pc[p]) =>
            /\ (pc'[p] = "done" /\ result'[p] = Changes(0))
                  => /\ resp'[p] # Answer("createProblemStatement", Changes(1))
                     /\ Catalog' = Catalog /\ Ledger' = Ledger
            /\ (pc[p] = "idle" /\ req'[p].problemStatementId \in CatalogIds)
                  => result'[p] = Changes(0)
            /\ Catalog' # Catalog
                  => /\ Len(Catalog') = Len(Catalog) + 1
                     /\ SubSeq(Catalog', 1, Len(Catalog)) = Catalog
                     /\ Catalog'[Len(Catalog')].id = req'[p].problemStatementId
                     /\ result'[p] = Changes(1)
                     /\ Ledger' = Ledger]_vars

\* C16: in every reachable state every stored problem statement has an
\* integer maxSelections >= 1.
C16_MaxSelectionsPositive ==
    \A i \in DOMAIN Catalog :
        /\ Catalog[i].maxSelections.num
        /\ Catalog[i].maxSelections.v >= 1

\* The step at which an updateProblemStatement request run alone is answered
\* (DatabaseManager writes the file in this step, MongoStore the document)
UpdateAnswered(p) ==
    /\ req'[p].kind = "updateProblemStatement"
    /\ pc[p] # "done" /\ pc'[p] = "done"
    /\ resp'[p].status = 200

\* The effect of updateProblemStatement(id, partial) of request p on the
\* store: only the fields named in partial change, on the record with that id
UpdateFrame(p) ==
    /\ Ledger' = Ledger
    /\ DOMAIN Catalog' = DOMAIN Catalog
    /\ \A i \in DOMAIN Catalog :
        IF Catalog[i].id # req'[p].problemStatementId THEN Catalog'[i] = Catalog[i]
        ELSE /\ Catalog'[i].id = Catalog[i].id
             /\ Catalog'[i].title =
                   IF req'[p].title # Absent THEN req'[p].title ELSE Catalog[i].title
             /\ Catalog'[i].maxSelections =
                   IF req'[p].maxSelections # Undef THEN req'[p].maxSelections
                   ELSE Catalog[i].maxSelections

\* C17 as stated: run alone, updateProblemStatement changes only the fields
\* named in partial, and returns changes = 1 when the record exists and
\* changes = 0, with the store unchanged, when it does not.
C17_UpdateReturnsOneIfExists ==
    [][\A p \in Procs :
        UpdateAnswered(p) =>
            /\ UpdateFrame(p)
            /\ result'[p].changes =
                  IF req'[p].problemStatementId \in CatalogIds THEN 1 ELSE 0]_vars

\* C17 amended: run alone, updateProblemStatement changes only the fields
\* named in partial; it returns changes = 0, with the store unchanged, when
\* the record does not exist; when it exists DatabaseManager returns
\* changes = 1 and MongoStore returns 1 if the update changed the record and
\* 0 if it left every field as it was.
C17_UpdateFrame ==
    [][\A p \in Procs :
        UpdateAnswered(p) =>
            /\ UpdateFrame(p)
            /\ result'[p].changes =
                  IF req'[p].problemStatementId \notin CatalogIds THEN 0
                  ELSE IF backend = "file" THEN 1
                  ELSE IF Catalog' # Catalog THEN 1 ELSE 0]_vars

\* C17 witness: MongoStore answered changes = 0 for an update of ps001 that
\* names its maxSelections with the value it already has, while
\* DatabaseManager's answers are covered by the other request.
C17_Witness ==
    \E p \in Procs :
        /\ backend = "mongo"
        /\ req[p].kind = "updateProblemStatement"
        /\ req[p].maxSelections = Num(1) /\ req[p].title = Absent
        /\ pc[p] = "done"
        /\ req[p].problemStatementId \in CatalogIds
        /\ Catalog[1] = Ps("ps001", 1)
        /\ result[p] = Changes(0)

\* C18: importFromJSON(list), run alone, inserts exactly the listed problem
\* statements whose id is not already in the Catalog and leaves every record
\* already present, and the Ledger, unchanged.
C18_ImportInsertsNew ==
    [][\A p \in Procs :
        (req'[p].kind = "import" /\ pc[p] # "done" /\ pc'[p] = "done") =>
            /\ Ledger' = Ledger
            /\ Len(Catalog') >= Len(Catalog)
            /\ SubSeq(Catalog', 1, Len(Catalog)) = Catalog
            /\ {Catalog'[i].id : i \in (Len(Catalog) + 1)..Len(Catalog')}
                  = {req'[p].list[i].id : i \in DOMAIN req'[p].list} \ CatalogIds]_vars

----------------------------------------------------------------------------
(* Claims about the broadcasts *)

\* C19: in broadcastUpdate an observer whose write fails is removed from
\* connectedClients, every other observer that was in the set when the
\* broadcast started receives the message exactly once, an observer outside
\* the set receives nothing, and the request that triggered the broadcast is
\* answered with success.
C19_FailedPushIsolated ==
    [][\A p \in Procs :
        (pc[p] = "broadcast" /\ pc'[p] = "done") =>
            /\ resp'[p].status = 200
            /\ \A o \in Observers :
                IF observers[o] = "subscribed"
                THEN \/ /\ received'[o] = Append(received[o], TypeTag(req[p].kind))
                        /\ observers'[o] = "subscribed"
                     \/ /\ received'[o] = received[o]
                        /\ observers'[o] = "failed"
                ELSE /\ received'[o] = received[o]
                     /\ observers'[o] = observers[o]]_vars

\* C19 witness: a registration was broadcast to two observers; the write to
\* one failed and it was removed, the other received the message once, and
\* the registration was answered with success.
C19_Witness ==
    \E p \in Procs, o1, o2 \in Observers :
        /\ req[p].kind = "register" /\ pc[p] = "done" /\ resp[p].status = 200
        /\ \A q \in Procs \ {p} : pc[q] = "idle"
        /\ observers[o1] = "failed" /\ received[o1] = <<>>
        /\ observers[o2] = "subscribed" /\ received[o2] = <<"registration">>

\* C20: every successful mutation triggers a broadcast: when a registration,
\* a deletion of a registration, or a creation, update or deletion of a
\* problem statement that changed the store is answered with success, a
\* message has been written to every observer in connectedClients.
C20_MutationsBroadcast ==
    [][\A p \in Procs :
        ( /\ pc[p] # "done" /\ pc'[p] = "done"
          /\ resp'[p].status \in {200, 201}
          /\ result'[p].changes = 1 )
        => \A o \in ConnectedClients :
              \/ Len(received'[o]) = Len(received[o]) + 1
              \/ observers'[o] = "failed"]_vars

\* C21: the snapshot broadcast after a successful registration is consistent
\* under any interleaving: the registrations list, read first, still describes
\* the committed store when the problems list is read (so that both lists
\* describe one state and every selected_count agrees with the registrations
\* list), and the broadcast snapshot contains the new registration.
C21_SnapshotConsistent ==
    [][\A p \in Procs :
        req[p].kind = "register" =>
            /\ (pc[p] = "getAllProblemStatements" /\ pc'[p] = "broadcast")
                  => snapshot[p].registrations = GetAllRegistrations
            /\ (pc[p] = "broadcast" /\ pc'[p] = "done")
                  => \E i \in DOMAIN snapshot[p].registrations :
                        snapshot[p].registrations[i].team_number = Key(req[p].teamNumber)]_vars

\* C22: an observer whose request has closed receives no further broadcast
\* and no further heartbeat and stays out of connectedClients; before its
\* subscription it receives nothing; and its disconnect changes neither the
\* store nor the state or the answer of any request.
C22_ClosedObserverSilent ==
    [][\A o \in Observers :
        /\ observers[o] \in {"none", "closed"} => received'[o] = received[o]
        /\ observers[o] = "closed" => observers'[o] = "closed"
        /\ (observers[o] # "closed" /\ observers'[o] = "closed")
              => UNCHANGED <<file, tmp, coll, pc, req, data, result, resp, writes,
                             snapshot>>]_vars

\* C22 witness: an observer received a heartbeat and closed; a registration
\* was then broadcast to the other observer only.
C22_Witness ==
    \E o1, o2 \in Observers, p \in Procs :
        /\ observers[o1] = "closed" /\ received[o1] = <<"heartbeat">>
        /\ observers[o2] = "subscribed" /\ received[o2] = <<"registration">>
        /\ req[p].kind = "register" /\ pc[p] = "done" /\ resp[p].status = 200

----------------------------------------------------------------------------
(* Claims about deleteRegistration and the team numbers *)

\* The Ledger without the registrations stored under a team number
LedgerWithout(teamNumber) ==
    Filter(Ledger, {x \in Range(Ledger) : x.teamNumber # teamNumber})

\* C23: DELETE /api/registration/:teamNumber run alone: when the team is
\* registered it removes exactly that registration, leaves every other
\* registration and the Catalog unchanged and answers 200; when the team is
\* not registered it answers 404, leaves the store unchanged and does not
\* broadcast.
C23_DeleteRegistrationAlone ==
    [][\A p \in Procs :
        (req'[p].kind = "deleteRegistration" /\ pc'[p] # pc[p]) =>
            /\ Catalog' = Catalog
            /\ Ledger' \in {Ledger, LedgerWithout(Key(req'[p].teamNumber))}
            /\ pc[p] = "idle" =>
                  result'[p] = Changes(IF Key(req'[p].teamNumber) \in LedgerTeams
                                       THEN 1 ELSE 0)
            /\ result'[p] = Changes(0) =>
                  /\ Ledger' = Ledger
                  /\ pc'[p] \notin {"getAllRegistrations", "getAllProblemStatements",
                                    "broadcast"}
                  /\ received' = received
            /\ pc'[p] = "done" =>
                  /\ Key(req'[p].teamNumber) \notin LedgerTeams'
                  /\ resp'[p].status = IF result'[p] = Changes(0) THEN 404 ELSE 200]_vars

\* C23 witness: with two teams registered, the registration of team 1 was
\* deleted and answered 200, and the registration of team 2 is the Ledger.
C23_Witness ==
    \E p \in Procs :
        /\ req[p].kind = "deleteRegistration" /\ req[p].teamNumber = T1
        /\ pc[p] = "done" /\ resp[p].status = 200 /\ result[p] = Changes(1)
        /\ Len(Ledger) = 1 /\ Ledger[1].teamNumber = T2
        /\ "ps001" \in CatalogIds

\* C24: team numbers are compared and stored after trimming: the Ledger never
\* holds two registrations whose trimmed team numbers are equal (a register
\* request that differs from a registered team number only by leading or
\* trailing whitespace is rejected).
C24_TrimmedTeamNumbersUnique ==
    \A i, j \in DOMAIN Ledger :
        Trim(Ledger[i].teamNumber) = Trim(Ledger[j].teamNumber) => i = j

\* C25: a register request whose teamNumber is empty after trimming is
\* rejected: no registration of the Ledger has a team number that is empty
\* after trimming.
C25_NoEmptyTeamNumber ==
    \A i \in DOMAIN Ledger : Trim(Ledger[i].teamNumber) # <<>>

\* C26: createRegistrationAtomic never throws for an expected rejection: a
\* call that ends without a registration, the duplicate key error of the
\* insert included, returns null and is answered 409; a register request is
\* answered 500 only when the backend failed (the rename of DatabaseManager's
\* temporary file).
C26_RejectionsAreReturned ==
    [][\A p \in Procs :
        (req'[p].kind = "register" /\ pc[p] # "done" /\ pc'[p] = "done") =>
            /\ resp'[p].status = 500 =>
                  backend = "file" /\ pc[p] = "rename" /\ tmp = NoFile
            /\ pc[p] \in {"create", "transaction", "insertOne"} =>
                  /\ result'[p] = Null
                  /\ resp'[p] = Answer("register", Null)]_vars

\* C26 witness: in MongoStore a request whose insert met the registration
\* another request committed for its team number was answered 409.
C26_Witness ==
    \E p, q \in Procs :
        /\ p # q /\ backend = "mongo"
        /\ req[p].kind = "register" /\ req[q].kind = "register"
        /\ pc[p] = "done" /\ result[p] = Null /\ resp[p].status = 409
        /\ data[p].registrations # <<>>
        /\ data[p].registrations[1].teamNumber = Trim(req[q].teamNumber)
        /\ result[q] = Changes(1)
        /\ MongoFindTeam(coll, Trim(req[p].teamNumber))

\* C27: MongoStore.deleteProblemStatement deletes the registrations that
\* reference the problem statement before the problem statement itself: in
\* the state between its two store calls no registration references a problem
\* statement that is absent from the Catalog.
C27_NoDanglingBetweenDeletes ==
    \A p \in Procs :
        (backend = "mongo" /\ pc[p] = "deleteMany") =>
            \A i \in DOMAIN Ledger :
                Ledger[i].problemStatementId = req[p].problemStatementId =>
                    req[p].problemStatementId \in CatalogIds

C29_RegisterKeepsCatalog ==
    [][\A p \in Procs :
        (req[p].kind = "register" /\ pc[p] = "rename" /\ tmp = <<data[p]>>) =>
            Catalog' = Catalog]_vars

\* C30: in DatabaseManager a deleted team comes back into the Ledger only by a
\* register request for that team (the write of a register request adds no
\* team number but its own), and the write of a deleteRegistration that found
\* nothing to delete (changes = 0) leaves the Ledger as it is.
C30_DeleteRegistrationHolds ==
    [][\A p \in Procs :
        (backend = "file" /\ pc[p] = "rename" /\ tmp = <<data[p]>>) =>
            /\ req[p].kind = "register" =>
                  LedgerTeams' \subseteq LedgerTeams \cup {req[p].teamNumber}
            /\ (req[p].kind = "deleteRegistration" /\ result[p] = Changes(0)) =>
                  Ledger' = Ledger]_vars

----------------------------------------------------------------------------
(* Claims about capacity across catalog updates and deletions *)

\* C31: the capacity invariant holds across catalog updates: when
\* updateProblemStatement has set maxSelections of a problem statement that
\* has registrations, the registrations referencing it number at most its
\* stored maxSelections.
C31_CapacityAcrossUpdates ==
    [][\A p \in Procs :
        (/\ req'[p].kind = "updateProblemStatement"
         /\ req'[p].maxSelections # Undef
         /\ pc[p] # "done" /\ pc'[p] = "done" /\ resp'[p].status = 200) =>
            \A i \in DOMAIN Catalog' :
                Catalog'[i].id = req'[p].problemStatementId =>
                    Cardinality({j \in DOMAIN Ledger' :
                                    Ledger'[j].problemStatementId = Catalog'[i].id})
                        <= Catalog'[i].maxSelections.v]_vars

\* is_available of problem statement id in the projection of the store as it is
IsAvailable(id) ==
    \E i \in DOMAIN GetAllProblemStatements :
        /\ GetAllProblemStatements[i].id = id
        /\ GetAllProblemStatements[i].is_available

\* C32: the projection and the engine agree on capacity: a register request
\* run alone, for a team number that is not in the Ledger and a problem
\* statement of the Catalog, is accepted by createRegistrationAtomic if and
\* only if getAllProblemStatements reports is_available = true for the problem
\* statement in that state.
C32_ProjectionAgreesWithEngine ==
    [][\A p \in Procs :
        (/\ req[p].kind = "register"
         /\ pc[p] \in {"create", "transaction"} /\ pc'[p] # pc[p]
         /\ ~IsTeamNumberTaken(req[p].teamNumber)
         /\ PsFound(req[p].problemStatementId)) =>
            (pc'[p] \in {"writeFile", "insertOne"}
                <=> IsAvailable(req[p].problemStatementId))]_vars

\* selected_count of problem statement id in the projection of the store
SelectedCount(id) ==
    LET rows == GetAllProblemStatements
    IN IF \E i \in DOMAIN rows : rows[i].id = id
       THEN rows[CHOOSE i \in DOMAIN rows : rows[i].id = id].selected_count
       ELSE 0

\* The problem statement of the registration stored under a team number
ProblemOf(teamNumber) ==
    IF teamNumber \in LedgerTeams
    THEN Ledger[CHOOSE i \in DOMAIN Ledger :
                    Ledger[i].teamNumber = teamNumber].problemStatementId
    ELSE ""

\* Some request deleted a registration and was answered 200
SomeDeleted ==
    \E q \in Procs :
        req[q].kind = "deleteRegistration" /\ pc[q] = "done" /\ resp[q].status = 200

\* C33: deleting a registration frees its slot: the store write of a
\* successful deleteRegistration(T) lowers selected_count of T's problem
\* statement by one and leaves the other counts, and a register request that
\* follows for an unregistered team against a problem statement with a free
\* slot is accepted.
C33_DeleteFreesSlot ==
    [][\A p \in Procs :
        /\ (req'[p].kind = "deleteRegistration" /\ pc'[p] # pc[p] /\ Ledger' # Ledger) =>
              \A id \in CatalogIds :
                  SelectedCount(id)' =
                      SelectedCount(id)
                        - (IF id = ProblemOf(Key(req'[p].teamNumber)) THEN 1 ELSE 0)
        /\ (/\ req[p].kind = "register" /\ SomeDeleted
            /\ pc[p] \in {"create", "transaction"} /\ pc'[p] # pc[p]
            /\ ~IsTeamNumberTaken(req[p].teamNumber)
            /\ \E i \in DOMAIN Catalog :
                  /\ Catalog[i].id = req[p].problemStatementId
                  /\ CountFor(Catalog[i].id) < MaxOf(i)) =>
              pc'[p] \in {"writeFile", "insertOne"}]_vars

\* C33 witness: ps001 has one slot; the registration of a team for it was
\* deleted (200) and the team's next register request for it was answered 200.
C33_Witness ==
    \E p, q \in Procs :
        /\ req[q].kind = "deleteRegistration" /\ pc[q] = "done" /\ resp[q].status = 200
        /\ req[p].kind = "register" /\ pc[p] = "done" /\ resp[p].status = 200
        /\ req[p].teamNumber = req[q].teamNumber
        /\ req[p].problemStatementId = "ps001"
        /\ Key(req[q].teamNumber) \in LedgerTeams
        /\ SelectedCount("ps001") = 1
        /\ \E i \in DOMAIN Catalog : Catalog[i].id = "ps001" /\ MaxOf(i) = 1

\* C34: problem-statement ids are unique in the Catalog in every reachable
\* state.
C34_CatalogIdsUnique ==
    \A i, j \in DOMAIN Catalog : Catalog[i].id = Catalog[j].id => i = j

----------------------------------------------------------------------------
(* Claims about the order of commit, broadcast and answer *)

----------------------------------------------------------------------------
(* Claims about DatabaseManager's file reads and writes *)

\* C36: in DatabaseManager a failed read of the data file never destroys
\* committed data: the write of a deleteRegistration or createProblemStatement
\* call keeps every problem statement of the Catalog and every registration
\* but the one it deletes.
C36_FailedReadKeepsData ==
    [][\A p \in Procs :
        (/\ backend = "file"
         /\ req[p].kind \in {"deleteRegistration", "createProblemStatement"}
         /\ pc[p] = "rename" /\ pc'[p] # "rename") =>
            /\ Range(Catalog) \subseteq Range(Catalog')
            /\ {x \in Range(Ledger) : x.teamNumber # req[p].teamNumber}
                  \subseteq Range(Ledger')]_vars

\* C37: #atomicWrite is atomic per call under concurrency: the rename of a
\* call, when it succeeds, installs the JSON that call wrote, and a call whose
\* content is the data file does not fail.
C37_AtomicWritePerCall ==
    [][\A p \in Procs :
        (backend = "file" /\ pc[p] = "rename" /\ pc'[p] # "rename") =>
            IF tmp = NoFile
            THEN file # data[p]
            ELSE file' = data[p]]_vars

----------------------------------------------------------------------------
(* Claims about MongoStore.resetAll *)

\* C38: after MongoStore.resetAll completes on an initialised store the
\* registrations collection is empty and the problem-statements collection
\* holds exactly the three default problem statements.
C38_ResetAllReseeds ==
    [][\A p \in Procs :
        (req[p].kind = "resetAll" /\ pc[p] = "resetInit" /\ pc'[p] = "done") =>
            /\ coll'.regs = <<>>
            /\ coll'.ps = Defaults]_vars

====
